---- MODULE Spec2Model ----
(***************************************************************************)
(* A state-machine model of the earnkit-sdk Agent facade                   *)
(* (src/src/agent/index.ts) and of the capability wrapper createTool       *)
(* (src/unnamed/part_000).                                                 *)
(*                                                                         *)
(* One Agent instance is modelled.  The asynchronous methods initialize    *)
(* and messageAgent are split at their await points, so that calls that    *)
(* overlap on the JavaScript event loop interleave here as they can there. *)
(* The collaborators (the chat model, createAgent, the checkpoint savers,  *)
(* the executable agent, the MongoDB client, the factories) are the        *)
(* environment: each of their calls nondeterministically returns one of    *)
(* the values, or fails in one of the ways, enumerated below.              *)
(*                                                                         *)
(* The variable `event` is an observation of the step just taken, not      *)
(* state of the program: the selection prompt the step submitted, the      *)
(* selection response it delivered, and the record of the messageAgent or  *)
(* initialize call it settled.  Every step that hands nothing over resets  *)
(* it.                                                                     *)
(***************************************************************************)
EXTENDS Integers, Sequences, FiniteSets, TLC

VARIABLES
    tools,            \* this.tools: capability name -> executable
    registry,         \* the descriptor mapping kept beside this.tools
    toolMetadata,     \* this.toolMetadata: the rendered capability summary
    toolKnowledge,    \* this.params.toolKnowledge
    systemPrompt,     \* this.systemPrompt
    mongoClient,      \* this.mongoClient
    checkPointSaver,  \* this.checkPointSaver
    store,            \* per checkpoint store: does the thread have stored state
    init,             \* the initialize call in flight, if any
    nInits,           \* how many initialize calls have been issued
    initFailed,       \* whether an initialize call on the instance has failed
    calls,            \* the messageAgent calls in flight: position and locals
    event,            \* what the last step handed over: the selection prompt
                      \* submitted, the selection response delivered, the
                      \* call or the initialize it settled
    toolRun,          \* one run of a createTool capability: input and outcome
    paramsValues,     \* the params values the host constructs instances from
    agents            \* the instances the host has constructed

vars == <<tools, registry, toolMetadata, toolKnowledge, systemPrompt,
          mongoClient, checkPointSaver, store, init, nInits, initFailed,
          calls, event, toolRun, paramsValues, agents>>

hostVars == <<toolRun, paramsValues, agents>>

agentVars == <<tools, registry, toolMetadata, toolKnowledge, systemPrompt,
               mongoClient, checkPointSaver, store, init, nInits, initFailed,
               calls, event>>

----------------------------------------------------------------------------
(* Bounds of the model.                                                    *)

MaxCalls == 1         \* messageAgent calls in flight at once
MaxInits == 2         \* initialize calls issued on the instance
MaxSel == 2           \* length of a selection response array
MaxKnowledge == 1     \* length of the accumulated-knowledge list
MaxMsgLen == 2        \* length of a thrown error's message, in characters
MaxOverlap == 2       \* messageAgent calls that overlap on one thread

(* The registry size up to which orchestrate binds every capability:       *)
(* Object.keys(this.tools).length > 3.                                     *)
Threshold == 3

Undefined == "undefined"

----------------------------------------------------------------------------
(* Values.                                                                 *)

(* JavaScript values a call can settle with. *)
Str(s) == [type |-> "string", value |-> s]
Err(m) == [type |-> "Error", message |-> m]

Returned(v) == [how |-> "returned", value |-> v]
Threw(e) == [how |-> "threw", value |-> e]

(* The checkpoint stores.  Every MongoSaver reads and writes the one       *)
(* external database; every new MemorySaver() is a fresh, empty store.     *)
NoSaver == [kind |-> Undefined, id |-> 0]
MongoSaver == [kind |-> "mongo", id |-> 0]
MemorySaver(k) == [kind |-> "memory", id |-> k]
Savers == {MongoSaver} \cup {MemorySaver(k) : k \in 1..MaxInits}

----------------------------------------------------------------------------
(* Factories and the registry.                                             *)

Executable(name, factory) == [name |-> name, by |-> factory]
Descriptor(name) == [name |-> name]

(* createTool(schemaDefinition, implementation)(agent): exactly one        *)
(* executable, and a one-entry descriptor mapping keyed by the name.       *)
createTool(name) ==
    [ok |-> TRUE,
     tools |-> <<Executable(name, name)>>,
     schema |-> (name :> Descriptor(name))]

(* The allRegistry list the host passes: four createTool factories. *)
AllRegistry == <<"a", "b", "c", "d">>

(* The client factories the host may pass.  "chain" follows the README's   *)
(* blockchain client: its schema mapping is keyed by identifiers other     *)
(* than the descriptors' names, and one of its names is also a tool's.     *)
(* "broken" is a client whose setup rejects.                               *)
ClientFactories == {"chain", "broken"}

Factory(f) ==
    CASE f = "chain" ->
           [ok |-> TRUE,
            tools |-> <<Executable("d", "chain"), Executable("f", "chain")>>,
            schema |-> ("dSchema" :> Descriptor("d") @@ "fSchema" :> Descriptor("f"))]
      [] f = "broken" ->
           [ok |-> FALSE, tools |-> <<>>, schema |-> <<>>]
      [] OTHER -> createTool(f)

(* The executables of one factory result, keyed by their names; a later    *)
(* executable of the same name replaces an earlier one.                    *)
RECURSIVE ByName(_)
ByName(ts) ==
    IF ts = <<>> THEN <<>>
    ELSE LET rest == ByName(SubSeq(ts, 1, Len(ts) - 1))
             t == ts[Len(ts)]
         IN (t.name :> t) @@ rest

(* exportToolsAndSetMetadata(agent, toolNumbers, clients, allRegistry):    *)
(* the factories at the selected positions, then every client, each        *)
(* awaited in turn and merged into the two mappings; the first factory     *)
(* that fails aborts the load.                                             *)
Instantiated(toolNumbers, clients) ==
    [i \in 1..Len(toolNumbers) |-> AllRegistry[toolNumbers[i]]] \o clients

(* LoadFactories, had an entry already present been kept on a collision. *)
RECURSIVE LoadFactoriesFirstWins(_, _)
LoadFactoriesFirstWins(fs, acc) ==
    IF fs = <<>> THEN acc
    ELSE LET r == Factory(Head(fs))
         IN IF ~r.ok
            THEN [acc EXCEPT !.ok = FALSE]
            ELSE LoadFactoriesFirstWins(Tail(fs),
                     [ok |-> TRUE,
                      tools |-> acc.tools @@ ByName(r.tools),
                      registry |-> acc.registry @@ r.schema])

RECURSIVE LoadFactories(_, _)
LoadFactories(fs, acc) ==
    IF fs = <<>> THEN acc
    ELSE LET r == Factory(Head(fs))
         IN IF ~r.ok
            THEN [acc EXCEPT !.ok = FALSE]
            ELSE LoadFactories(Tail(fs),
                     [ok |-> TRUE,
                      tools |-> ByName(r.tools) @@ acc.tools,
                      registry |-> r.schema @@ acc.registry])

RenderMetadata(ts) == {ts[n].name : n \in DOMAIN ts}

exportToolsAndSetMetadata(toolNumbers, clients) ==
    LET r == LoadFactories(Instantiated(toolNumbers, clients),
                           [ok |-> TRUE, tools |-> tools, registry |-> registry])
    IN [ok |-> r.ok, tools |-> r.tools, registry |-> r.registry,
        toolMetadata |-> IF r.ok THEN RenderMetadata(r.tools) ELSE toolMetadata]

----------------------------------------------------------------------------
(* The rendered prompts.                                                   *)

(* this.params.toolKnowledge && length > 0 && filter(...).map(...).join:   *)
(* the text "false" for an empty list, else one "- item" line per          *)
(* non-empty item.  A text is modelled as the sequence of its lines.       *)
RECURSIVE FilterNonEmpty(_)
FilterNonEmpty(k) ==
    IF k = <<>> THEN <<>>
    ELSE IF Head(k) # "" THEN <<Head(k)>> \o FilterNonEmpty(Tail(k))
         ELSE FilterNonEmpty(Tail(k))

RenderKnowledge(k) ==
    IF Len(k) > 0
    THEN [i \in 1..Len(FilterNonEmpty(k)) |-> <<"- ", FilterNonEmpty(k)[i]>>]
    ELSE <<<<"false">>>>

(* The system instruction rendered by initialize.  Of the template only    *)
(* the two parts that vary with the instance's state are kept; the clock   *)
(* reading it embeds is left out.                                          *)
SystemMessage(metadata, knowledge) ==
    [role |-> "system", tools |-> metadata, knowledge |-> RenderKnowledge(knowledge)]

UserMessage(msg) ==
    [role |-> "user", tools |-> {}, knowledge |-> <<<<msg>>>>]

NoMessage == [role |-> Undefined, tools |-> {}, knowledge |-> <<>>]

(* OrchestrationPrompt, had its Knowledge section been left empty. *)
OrchestrationPromptNoKnowledge(ts, knowledge) ==
    [role |-> "system", tools |-> DOMAIN ts, knowledge |-> RenderKnowledge(<<>>)]

(* The selection prompt rendered by orchestrate.  Of the template the two  *)
(* parts that vary are kept: the Knowledge section, rendered from the      *)
(* accumulated-knowledge list as the system instruction's is, and the      *)
(* Available Tools section, one line per key of this.tools.                *)
OrchestrationPrompt(ts, knowledge) ==
    [role |-> "system", tools |-> DOMAIN ts, knowledge |-> RenderKnowledge(knowledge)]

----------------------------------------------------------------------------
(* Agent.orchestrate.                                                      *)

(* What the selection model answers: it rejects, or its content is prose,  *)
(* or JSON that is no array, or a JSON array of names.                     *)
SelNames == {"a", "zz", "INVALID_TOOL:zz"}

RECURSIVE SeqsUpTo(_, _)
SeqsUpTo(S, n) ==
    IF n = 0 THEN {<<>>}
    ELSE LET shorter == SeqsUpTo(S, n - 1)
         IN shorter \cup {Append(q, x) : q \in shorter, x \in S}

Content(json, array, items) == [json |-> json, array |-> array, items |-> items]
NoContent == Content(FALSE, FALSE, <<>>)

SelContents ==
    {Content(FALSE, FALSE, <<>>), Content(TRUE, FALSE, <<>>)}
        \cup {Content(TRUE, TRUE, q) : q \in SeqsUpTo(SelNames, MaxSel)}

SelResponses ==
    {[ok |-> FALSE, content |-> NoContent]}
        \cup {[ok |-> TRUE, content |-> c] : c \in SelContents}

(* JSON.parse(orchestrationResponse.content.toString()) *)
JSONParse(content) ==
    IF content.json
    THEN Returned([array |-> content.array, items |-> content.items])
    ELSE Threw(Err("SyntaxError"))

UndefinedTool == Executable(Undefined, Undefined)

(* toolNames.map((name) => this.tools[name]) *)
ResolveTools(toolNames) ==
    [i \in 1..Len(toolNames) |->
        IF toolNames[i] \in DOMAIN tools THEN tools[toolNames[i]] ELSE UndefinedTool]

(* SelectTools, had it taken JSON that is no array for an empty list. *)
SelectToolsLenient(response) ==
    IF ~response.ok THEN Threw(Err("model.invoke"))
    ELSE LET parsed == JSONParse(response.content)
         IN IF parsed.how = "threw" THEN parsed
            ELSE IF ~parsed.value.array THEN Returned(<<>>)
            ELSE Returned(ResolveTools(parsed.value.items))

(* The selection path from the model's answer to loadedTools. *)
SelectTools(response) ==
    IF ~response.ok THEN Threw(Err("model.invoke"))
    ELSE LET parsed == JSONParse(response.content)
         IN IF parsed.how = "threw" THEN parsed
            ELSE IF ~parsed.value.array THEN Threw(Err("TypeError"))
            ELSE Returned(ResolveTools(parsed.value.items))

(* Object.values(this.tools), in a fixed order of the names. *)
NameOrder == <<"a", "b", "c", "d", "f">>

RECURSIVE ValuesFrom(_)
ValuesFrom(i) ==
    IF i > Len(NameOrder) THEN <<>>
    ELSE IF NameOrder[i] \in DOMAIN tools
         THEN <<tools[NameOrder[i]]>> \o ValuesFrom(i + 1)
         ELSE ValuesFrom(i + 1)

ObjectValues == ValuesFrom(1)

(* NeedsSelection, had the comparison been >=. *)
NeedsSelectionAtThreshold == Cardinality(DOMAIN tools) >= Threshold

(* Whether orchestrate consults the model: Object.keys(this.tools).length > 3 *)
NeedsSelection == Cardinality(DOMAIN tools) > Threshold

(* What orchestrate resolves with: the executable agent, or false.         *)
(* `created` says how the createAgent call went, if it was made.           *)
Agent(loadedTools, saver) ==
    [built |-> TRUE, created |-> "ok", tools |-> loadedTools,
     checkpointSaver |-> saver]
NoAgent ==
    [built |-> FALSE, created |-> "none", tools |-> <<>>,
     checkpointSaver |-> NoSaver]

(* catch (err) { console.error(...); return false; } *)
orchestrateCatch(err) ==
    [NoAgent EXCEPT !.created = IF err = Err("createAgent") THEN "threw" ELSE "none"]

(* toolsAfterOrchestrate, had orchestrate stored what it loaded in         *)
(* this.tools.                                                             *)
toolsNarrowedByOrchestrate(loaded) ==
    IF loaded.how = "returned" THEN ByName(loaded.value) ELSE tools

(* this.tools after orchestrate: what it loads is kept in the local        *)
(* loadedTools; this.tools is read and never assigned.                     *)
toolsAfterOrchestrate(loaded) == tools

(* orchestrateBuild, had an empty selection fallen back to every           *)
(* capability.                                                             *)
orchestrateBuildAllWhenEmpty(loaded, createFails) ==
    IF loaded.how = "threw" THEN orchestrateCatch(loaded.value)
    ELSE IF createFails THEN orchestrateCatch(Err("createAgent"))
    ELSE Agent(IF loaded.value = <<>> THEN ObjectValues ELSE loaded.value,
               checkPointSaver)

(* createAgent({llm, tools: loadedTools || [], checkpointSaver}) and the   *)
(* return: `loaded` is how the body got to loadedTools, `createFails`      *)
(* whether createAgent throws.                                             *)
orchestrateBuild(loaded, createFails) ==
    IF loaded.how = "threw" THEN orchestrateCatch(loaded.value)
    ELSE IF createFails THEN orchestrateCatch(Err("createAgent"))
    ELSE Agent(loaded.value, checkPointSaver)

----------------------------------------------------------------------------
(* Records of calls, and the event of a step.                              *)

Calls == 1..MaxCalls

MsgOf(c) == "msg" \o ToString(c)

NoSelection == [ok |-> FALSE, content |-> NoContent]

(* What agent.invoke resolves with, when it resolves: the messages of the  *)
(* thread, of which only the last one's content is kept.                   *)
Response(messages) == [defined |-> TRUE, messages |-> messages]
NoResponse == [defined |-> FALSE, messages |-> <<>>]

(* A messageAgent call in flight: where it is, and its locals.  `selected` *)
(* says whether the selection model was called, `agent` is what            *)
(* orchestrate resolved with, `read` what the checkpoint get returned,     *)
(* `submitted` the messages handed to agent.invoke; `afterMalformed` says  *)
(* that the call was issued right after a call had failed on a malformed   *)
(* selection response, `afterFailure` that it was issued after an          *)
(* initialize call on the instance had failed, `afterUnstored` that it was *)
(* issued right after a call whose agent invocation had rejected before    *)
(* storing state.                                                          *)
IdleCall ==
    [pc |-> "idle", afterMalformed |-> FALSE, afterFailure |-> FALSE,
     afterUnstored |-> FALSE,
     selected |-> FALSE, agent |-> NoAgent, read |-> "none",
     submitted |-> <<>>]

(* The shape of a selection response, without the names. *)
Shape(response) ==
    [ok |-> response.ok, json |-> response.content.json,
     array |-> response.content.array]

Malformed(shape) == shape.ok /\ (~shape.json \/ ~shape.array)
WellFormed(shape) == shape.ok /\ shape.json /\ shape.array

(* The record of a settled messageAgent call: how its promise settled and  *)
(* with what, and what the call had done by then.                          *)
Settled(c, call, shape, agent, response, result) ==
    [settled |-> TRUE, call |-> c, result |-> result,
     afterMalformed |-> call.afterMalformed, afterFailure |-> call.afterFailure,
     selected |-> call.selected,
     selection |-> shape, agent |-> agent, read |-> call.read,
     response |-> response]

NoCall ==
    [settled |-> FALSE, call |-> 0, result |-> [how |-> "none", value |-> Str("")],
     afterMalformed |-> FALSE, afterFailure |-> FALSE, selected |-> FALSE,
     selection |-> Shape(NoSelection), agent |-> NoAgent, read |-> "none",
     response |-> NoResponse]

(* The record of a settled initialize call. *)
NoInit ==
    [settled |-> FALSE, checkPointer |-> "local", failure |-> "none",
     outcome |-> "none", before |-> NoSaver, after |-> NoSaver]

(* The selection response delivered to a call. *)
Answer(c, response) == [call |-> c, response |-> response]
NoAnswer == Answer(0, NoSelection)

NoEvent ==
    [init |-> NoInit, call |-> NoCall, answer |-> NoAnswer, prompt |-> NoMessage]

----------------------------------------------------------------------------
(* Agent.initialize.                                                       *)

ToolNumberChoices == {<<1, 2, 3>>, <<1, 2, 3, 4>>}
ClientChoices == {<<>>, <<"chain">>, <<"broken">>}
CheckPointers == {"local", "mongo"}

IdleInit ==
    [pc |-> "idle", toolNumbers |-> <<>>, clients |-> <<>>,
     checkPointer |-> "local", before |-> NoSaver]

(* How the promise of an initialize call settles on a failure.  Both inner *)
(* handlers rethrow (`Agent initialization failed: ...`, `MongoDB          *)
(* connection failed: ...`); the rethrown error lands in the outer         *)
(* handler, which logs it and falls off the end of the method.             *)
initializeCatch(error) == "resolved"

InitRecord(failure, outcome, after) ==
    [settled |-> TRUE, checkPointer |-> init.checkPointer, failure |-> failure,
     outcome |-> outcome, before |-> init.before, after |-> after]

(* The call, up to `await exportToolsAndSetMetadata(...)`. *)
initialize(toolNumbers, clients, checkPointer) ==
    /\ init.pc = "idle"
    /\ nInits < MaxInits
    /\ nInits' = nInits + 1
    /\ init' = [pc |-> "loading", toolNumbers |-> toolNumbers, clients |-> clients,
                checkPointer |-> checkPointer, before |-> checkPointSaver]
    /\ event' = NoEvent
    /\ UNCHANGED <<tools, registry, toolMetadata, toolKnowledge, systemPrompt,
                   mongoClient, checkPointSaver, store, initFailed, calls,
                   hostVars>>

(* The load settles.  On failure the call ends in the handlers.  On        *)
(* success the system instruction is rendered, and then either the         *)
(* MongoClient is constructed and connect() is awaited, or a new           *)
(* MemorySaver is installed.                                               *)
initializeLoaded ==
    /\ init.pc = "loading"
    /\ LET r == exportToolsAndSetMetadata(init.toolNumbers, init.clients)
       IN /\ tools' = r.tools
          /\ registry' = r.registry
          /\ toolMetadata' = r.toolMetadata
          /\ initFailed' = (initFailed \/ ~r.ok)
          /\ IF ~r.ok
             THEN /\ event' = [NoEvent EXCEPT !.init = InitRecord("load",
                        initializeCatch(Err("Agent initialization failed")),
                        checkPointSaver)]
                  /\ init' = IdleInit
                  /\ UNCHANGED <<systemPrompt, mongoClient, checkPointSaver>>
             ELSE /\ systemPrompt' = SystemMessage(r.toolMetadata, toolKnowledge)
                  /\ IF init.checkPointer = "mongo"
                     THEN /\ mongoClient' = "client"
                          /\ init' = [init EXCEPT !.pc = "connecting"]
                          /\ event' = NoEvent
                          /\ UNCHANGED checkPointSaver
                     ELSE /\ checkPointSaver' = MemorySaver(nInits)
                          /\ event' = [NoEvent EXCEPT !.init =
                                InitRecord("none", "resolved", checkPointSaver')]
                          /\ init' = IdleInit
                          /\ UNCHANGED mongoClient
    /\ UNCHANGED <<toolKnowledge, store, nInits, calls, hostVars>>

(* saverAfterConnect, had a failed connection fallen back to a new         *)
(* MemorySaver.                                                            *)
saverFallback(connected, current, fresh) ==
    IF connected THEN MongoSaver ELSE fresh

(* The checkpoint store after `await this.mongoClient.connect()` settles:  *)
(* a MongoSaver on the client when it connected; when it did not, the      *)
(* assignment is never reached and the field keeps its value.              *)
saverAfterConnect(connected, current, fresh) ==
    IF connected THEN MongoSaver ELSE current

initializeConnected(connected) ==
    /\ init.pc = "connecting"
    /\ checkPointSaver' =
           saverAfterConnect(connected, checkPointSaver, MemorySaver(nInits))
    /\ event' = [NoEvent EXCEPT !.init =
           IF connected
           THEN InitRecord("none", "resolved", checkPointSaver')
           ELSE InitRecord("mongo",
                    initializeCatch(Err("MongoDB connection failed")),
                    checkPointSaver')]
    /\ init' = IdleInit
    /\ UNCHANGED <<tools, registry, toolMetadata, toolKnowledge, systemPrompt,
                   mongoClient, store, nInits, calls, hostVars>>
    /\ initFailed' = (initFailed \/ ~connected)

----------------------------------------------------------------------------
(* Agent.messageAgent.                                                     *)

(* How agent.invoke settles: it resolves, having stored the turn, or it    *)
(* rejects, before or after storing it.                                    *)
InvokeOutcomes ==
    {[ok |-> TRUE, wrote |-> TRUE, messages |-> m] : m \in {<<>>, <<"">>, <<"reply">>}}
        \cup {[ok |-> FALSE, wrote |-> w, messages |-> <<>>] : w \in BOOLEAN}

KnowledgeItems == {"k"}

(* messageAgentCatch, had the handler rethrown. *)
messageAgentRethrow(error) == Threw(error)

(* ExtractResponse, had the fallback `|| "Error"` been left out. *)
ExtractResponseNoFallback(response) ==
    IF ~response.defined THEN Returned(Str(Undefined))
    ELSE IF response.messages = <<>> THEN Threw(Err("TypeError"))
    ELSE Returned(Str(response.messages[Len(response.messages)]))

(* catch (error) { console.error(...); return error; } *)
messageAgentCatch(error) == Returned(error)

(* (response && response.messages[response.messages.length - 1].content)   *)
(*   || "Error"                                                            *)
ExtractResponse(response) ==
    IF ~response.defined THEN Returned(Str("Error"))
    ELSE IF response.messages = <<>> THEN Threw(Err("TypeError"))
    ELSE IF response.messages[Len(response.messages)] = ""
         THEN Returned(Str("Error"))
         ELSE Returned(Str(response.messages[Len(response.messages)]))

(* The return statement, inside the outer try. *)
messageAgentReturn(response) ==
    LET r == ExtractResponse(response)
    IN IF r.how = "threw" THEN messageAgentCatch(r.value) ELSE r

(* agentFailed, had a failed orchestrate been reported as a failed agent   *)
(* invocation is.                                                          *)
agentFailedAsInvocation == messageAgentReturn(NoResponse)

(* if (!agent) throw new Error("Agent failed"), inside the outer try. *)
agentFailed == messageAgentCatch(Err("Agent failed"))

(* afterOrchestrate, had the agent been invoked without the checkpoint     *)
(* get.                                                                    *)
afterOrchestrateNoRead(c, call, shape, agent) ==
    IF ~agent.built
    THEN <<IdleCall, Settled(c, call, shape, agent, NoResponse, agentFailed)>>
    ELSE <<[call EXCEPT !.pc = "invoking", !.agent = agent,
                        !.submitted = <<systemPrompt, UserMessage(MsgOf(c))>>],
           NoCall>>

(* From the value orchestrate resolved with to the checkpoint read.  With  *)
(* no agent the call settles as agentFailed.  `this.checkPointSaver.get`   *)
(* on an instance without a store is a TypeError inside the inner try,     *)
(* which leaves response undefined.  The result is the pair of the call's  *)
(* next record and of the record of the call if it settled.                *)
afterOrchestrate(c, call, shape, agent) ==
    IF ~agent.built
    THEN <<IdleCall, Settled(c, call, shape, agent, NoResponse, agentFailed)>>
    ELSE IF checkPointSaver = NoSaver
         THEN <<IdleCall,
                Settled(c, [call EXCEPT !.read = "failed"], shape, agent,
                        NoResponse, messageAgentReturn(NoResponse))>>
         ELSE <<[call EXCEPT !.pc = "reading", !.agent = agent], NoCall>>

(* The settled call read no state, its agent invocation rejected, and the  *)
(* store of the instance, which the agent was built with, still holds no   *)
(* state for the thread.                                                   *)
FailedUnstored(done) ==
    /\ done.settled
    /\ done.read = "null" /\ ~done.response.defined
    /\ done.agent.checkpointSaver = checkPointSaver
    /\ ~store[checkPointSaver]

(* The call, up to its first await that leaves the instance: on a          *)
(* registry above the threshold, the selection call to the model; else     *)
(* every capability is bound and the checkpoint read is issued.            *)
messageAgent(c, createFails) ==
    /\ calls[c].pc = "idle"
    /\ LET call == [IdleCall EXCEPT
                       !.afterMalformed = /\ event.call.settled
                                          /\ Malformed(event.call.selection),
                       !.afterFailure = initFailed,
                       !.afterUnstored = FailedUnstored(event.call)]
           next == IF NeedsSelection
                   THEN <<[call EXCEPT !.pc = "selecting", !.selected = TRUE], NoCall>>
                   ELSE afterOrchestrate(c, call, Shape(NoSelection),
                            orchestrateBuild(Returned(ObjectValues), createFails))
       IN /\ calls' = [calls EXCEPT ![c] = next[1]]
          /\ event' = [NoEvent EXCEPT
                 !.call = next[2],
                 !.prompt = IF NeedsSelection
                            THEN OrchestrationPrompt(tools, toolKnowledge)
                            ELSE NoMessage]
    /\ tools' = IF NeedsSelection THEN tools
                ELSE toolsAfterOrchestrate(Returned(ObjectValues))
    /\ UNCHANGED <<registry, toolMetadata, toolKnowledge, systemPrompt,
                   mongoClient, checkPointSaver, store, init, nInits, initFailed,
                   hostVars>>

(* `await this.model.invoke([orchestrationPrompt, ...])` settles. *)
selectionSettled(c, response, createFails) ==
    /\ calls[c].pc = "selecting"
    /\ LET next == afterOrchestrate(c, calls[c], Shape(response),
                       orchestrateBuild(SelectTools(response), createFails))
       IN /\ calls' = [calls EXCEPT ![c] = next[1]]
          /\ event' = [NoEvent EXCEPT !.call = next[2],
                                      !.answer = Answer(c, response)]
    /\ tools' = toolsAfterOrchestrate(SelectTools(response))
    /\ UNCHANGED <<registry, toolMetadata, toolKnowledge, systemPrompt,
                   mongoClient, checkPointSaver, store, init, nInits, initFailed,
                   hostVars>>

(* Messages, had the system instruction never been submitted. *)
MessagesNeverSystem(read, msg) == <<UserMessage(msg)>>

(* Messages, had the test of the checkpoint read been inverted. *)
MessagesInverted(read, msg) ==
    IF read THEN <<systemPrompt, UserMessage(msg)>> ELSE <<UserMessage(msg)>>

(* Messages, had the system instruction been submitted on every turn. *)
MessagesAlwaysSystem(read, msg) == <<systemPrompt, UserMessage(msg)>>

(* The messages submitted to agent.invoke. *)
Messages(read, msg) ==
    IF ~read THEN <<systemPrompt, UserMessage(msg)>> ELSE <<UserMessage(msg)>>

(* The shape of the selection response of a call that is past orchestrate. *)
ShapeOf(call) ==
    IF call.selected THEN Shape([ok |-> TRUE, content |-> Content(TRUE, TRUE, <<>>)])
    ELSE Shape(NoSelection)

(* `await this.checkPointSaver.get(this.config)` settles, on the store     *)
(* the agent was built with; when it resolves, agent.invoke is issued.     *)
checkpointRead(c, readOk) ==
    /\ calls[c].pc = "reading"
    /\ IF ~readOk
       THEN /\ calls' = [calls EXCEPT ![c] = IdleCall]
            /\ event' = [NoEvent EXCEPT !.call =
                   Settled(c, [calls[c] EXCEPT !.read = "failed"],
                           ShapeOf(calls[c]), calls[c].agent, NoResponse,
                           messageAgentReturn(NoResponse))]
       ELSE LET read == store[calls[c].agent.checkpointSaver]
            IN /\ calls' = [calls EXCEPT ![c] =
                      [@ EXCEPT !.pc = "invoking",
                                !.read = IF read THEN "state" ELSE "null",
                                !.submitted = Messages(read, MsgOf(c))]]
               /\ event' = NoEvent
    /\ UNCHANGED <<tools, registry, toolMetadata, toolKnowledge, systemPrompt,
                   mongoClient, checkPointSaver, store, init, nInits, initFailed,
                   hostVars>>

(* Whether one of the capabilities bound to the agent can have run. *)
HasCapability(agent) == \E i \in 1..Len(agent.tools) : agent.tools[i] # UndefinedTool

(* `await agent.invoke(...)` settles.  The executable agent stores the     *)
(* turn in the store it was built with; a capability it ran may have       *)
(* appended an item to the accumulated-knowledge list.                     *)
invokeSettled(c, outcome, learned) ==
    /\ calls[c].pc = "invoking"
    /\ learned # <<>> =>
          /\ HasCapability(calls[c].agent)
          /\ Len(toolKnowledge) < MaxKnowledge
    /\ store' = IF outcome.wrote
                THEN [store EXCEPT ![calls[c].agent.checkpointSaver] = TRUE]
                ELSE store
    /\ toolKnowledge' = toolKnowledge \o learned
    /\ LET response == IF outcome.ok THEN Response(outcome.messages) ELSE NoResponse
       IN event' = [NoEvent EXCEPT !.call =
              Settled(c, calls[c], ShapeOf(calls[c]), calls[c].agent, response,
                      messageAgentReturn(response))]
    /\ calls' = [calls EXCEPT ![c] = IdleCall]
    /\ UNCHANGED <<tools, registry, toolMetadata, systemPrompt, mongoClient,
                   checkPointSaver, init, nInits, initFailed, hostVars>>

----------------------------------------------------------------------------
(* The capability wrapper of createTool.                                   *)

(* A text is a sequence of characters here, so that a prefix is a prefix. *)
MsgChars == {"x", "E", ":"}
Texts == SeqsUpTo(MsgChars, MaxMsgLen)

ErrorPrefix == <<"E", "r", "r", "o", "r", ":", " ">>
UnknownError == <<"U", "n", "k", "n", "o", "w", "n", " ", "e", "r", "r", "o", "r",
                  " ", "o", "c", "c", "u", "r", "r", "e", "d">>

(* What an implementation can throw, or reject with: an Error or another   *)
(* object carrying a message, a value without one (a string, a number), or *)
(* null or undefined.                                                      *)
Thrown ==
    {[kind |-> k, message |-> m] : k \in {"Error", "object"}, m \in Texts}
        \cup {[kind |-> "string", message |-> m] : m \in Texts}
        \cup {[kind |-> k, message |-> <<>>] : k \in {"null", "undefined"}}

(* How a call of the implementation settles. *)
ImplOutcomes ==
    {[how |-> "returned", value |-> [kind |-> "string", message |-> m]] : m \in Texts}
        \cup {[how |-> h, value |-> t] : h \in {"threw", "rejected"}, t \in Thrown}

(* error.message: a TypeError on null and undefined, undefined on a value  *)
(* that has no such property.                                              *)
MessageOf(error) ==
    CASE error.kind \in {"null", "undefined"} -> Threw(<<"TypeError">>)
      [] error.kind \in {"Error", "object"} -> Returned(error.message)
      [] OTHER -> Returned(<<>>)

(* The handler of func:                                                    *)
(*   return `Error: ${error.message || "Unknown error occurred"}`          *)
toolCatch(error) ==
    LET m == MessageOf(error)
    IN IF m.how = "threw" THEN m
       ELSE Returned(ErrorPrefix \o (IF m.value = <<>> THEN UnknownError ELSE m.value))

(* func: async (args) => { try { return await implementation(args, agent) } *)
(*                         catch (error) { ... } }                          *)
toolFunc(impl) ==
    IF impl.how = "returned" THEN Returned(impl.value.message)
    ELSE toolCatch(impl.value)

IdleRun == [pc |-> "idle", impl |-> [how |-> "returned",
                                     value |-> [kind |-> "string", message |-> <<>>]],
            result |-> [how |-> "pending", value |-> <<>>]]

(* A capability built by createTool is called and settles. *)
callTool ==
    /\ toolRun.pc = "called"
    /\ toolRun' = [toolRun EXCEPT !.pc = "done", !.result = toolFunc(toolRun.impl)]
    /\ UNCHANGED <<agentVars, paramsValues, agents>>

----------------------------------------------------------------------------
(* Instances of one host.                                                  *)

(* The host constructs instances from params values it holds; two          *)
(* instances are constructed from the same value when the host passes the  *)
(* same object to both.  An instance keeps the reference (this.params =    *)
(* params), so its accumulated-knowledge list is the list of that value.   *)
Instances == {1, 2}
ParamsIds == {1, 2}

ScratchKeys == {"lastPriceCheck"}

NoInstance ==
    [constructed |-> FALSE, params |-> 0, tools |-> {}, runtimeParams |-> {},
     checkPointSaver |-> NoSaver]

(* this.params.toolKnowledge of instance i. *)
KnowledgeOf(i) == paramsValues[agents[i].params].toolKnowledge

(* new Agent({threadId, params, model}), with a model: the instance keeps  *)
(* the params value, gets a new tools mapping and a new scratch object,    *)
(* and the knowledge list of the params value is replaced by a new, empty  *)
(* list (this.params.toolKnowledge = []).                                  *)
constructor(i, p) ==
    /\ ~agents[i].constructed
    /\ agents' = [agents EXCEPT ![i] =
           [constructed |-> TRUE, params |-> p, tools |-> {},
            runtimeParams |-> {}, checkPointSaver |-> NoSaver]]
    /\ paramsValues' = [paramsValues EXCEPT ![p].toolKnowledge = <<>>]
    /\ UNCHANGED <<agentVars, toolRun>>

(* initialize on instance i, as far as it writes fields of the instance:   *)
(* the names loaded into this.tools and the store assigned to              *)
(* this.checkPointSaver (each instance's MemorySaver is its own).          *)
initializeInstance(i, names, checkPointer) ==
    /\ agents[i].constructed
    /\ agents[i].checkPointSaver = NoSaver
    /\ agents' = [agents EXCEPT
           ![i].tools = @ \cup names,
           ![i].checkPointSaver =
               IF checkPointer = "mongo" THEN MongoSaver ELSE MemorySaver(i)]
    /\ UNCHANGED <<agentVars, toolRun, paramsValues>>

(* A capability of instance i runs with the instance as its agent          *)
(* reference and uses the side channel: it sets a key of                   *)
(* agent.runtimeParams and pushes an item to agent.params.toolKnowledge.   *)
capabilityRuns(i, key, item) ==
    /\ agents[i].constructed
    /\ agents[i].tools # {}
    /\ Len(KnowledgeOf(i)) < MaxKnowledge
    /\ agents' = [agents EXCEPT ![i].runtimeParams = @ \cup {key}]
    /\ paramsValues' = [paramsValues EXCEPT ![agents[i].params].toolKnowledge =
           Append(@, item)]
    /\ UNCHANGED <<agentVars, toolRun>>

----------------------------------------------------------------------------
(* The specifications.                                                     *)

(* The fields of the instance as its constructor leaves them, on a thread  *)
(* that no store holds state for yet.                                      *)
InitFields ==
    /\ tools = <<>>
    /\ registry = <<>>
    /\ toolMetadata = {}
    /\ toolKnowledge = <<>>
    /\ systemPrompt = NoMessage
    /\ mongoClient = Undefined
    /\ checkPointSaver = NoSaver
    /\ store = [s \in Savers |-> FALSE]
    /\ init = IdleInit
    /\ nInits = 0
    /\ initFailed = FALSE
    /\ event = NoEvent

InitAgent ==
    /\ InitFields
    /\ calls = [c \in Calls |-> IdleCall]

(* The host of the one instance: no capability run of its own, and no     *)
(* other instance.                                                         *)
InitHost ==
    /\ paramsValues = [p \in ParamsIds |-> [toolKnowledge |-> <<>>]]
    /\ agents = [i \in Instances |-> NoInstance]

Init ==
    /\ InitAgent
    /\ toolRun = IdleRun
    /\ InitHost

Next ==
    \/ \E tn \in ToolNumberChoices, cl \in ClientChoices, cp \in CheckPointers :
           initialize(tn, cl, cp)
    \/ initializeLoaded
    \/ \E connected \in BOOLEAN : initializeConnected(connected)
    \/ \E c \in Calls, createFails \in BOOLEAN : messageAgent(c, createFails)
    \/ \E c \in Calls, r \in SelResponses, createFails \in BOOLEAN :
           selectionSettled(c, r, createFails)
    \/ \E c \in Calls, readOk \in BOOLEAN : checkpointRead(c, readOk)
    \/ \E c \in Calls, o \in InvokeOutcomes,
          learned \in {<<>>} \cup {<<k>> : k \in KnowledgeItems} :
           invokeSettled(c, o, learned)

Spec == Init /\ [][Next]_vars

(* Every collaborator call eventually returns or fails: the selection      *)
(* call, the checkpoint get and the agent invocation of a call in flight   *)
(* each settle.                                                            *)
CollaboratorsSettle ==
    \A c \in Calls :
       /\ WF_vars(\E r \in SelResponses, createFails \in BOOLEAN :
                     selectionSettled(c, r, createFails))
       /\ WF_vars(\E readOk \in BOOLEAN : checkpointRead(c, readOk))
       /\ WF_vars(\E o \in InvokeOutcomes : invokeSettled(c, o, <<>>))

SpecLive == Spec /\ CollaboratorsSettle

(* One call of a createTool capability, over every way its implementation  *)
(* can settle.                                                             *)
InitTool ==
    /\ InitAgent
    /\ toolRun \in {[IdleRun EXCEPT !.pc = "called", !.impl = o] : o \in ImplOutcomes}
    /\ InitHost

NextTool == callTool

SpecTool == InitTool /\ [][NextTool]_vars

(* Calls that the host issues without awaiting the one before, on an       *)
(* instance it initializes with three tool factories and the "local"       *)
(* backend: the calls take the full-set path and share the thread of the   *)
(* instance.                                                               *)
Overlapping == 1..MaxOverlap

InitOverlap ==
    /\ InitFields
    /\ calls = [c \in Overlapping |-> IdleCall]
    /\ toolRun = IdleRun
    /\ InitHost

NextOverlap ==
    \/ initialize(<<1, 2, 3>>, <<>>, "local")
    \/ initializeLoaded
    \/ \E c \in Overlapping : messageAgent(c, FALSE)
    \/ \E c \in Overlapping, readOk \in BOOLEAN : checkpointRead(c, readOk)
    \/ \E c \in Overlapping, o \in InvokeOutcomes,
          learned \in {<<>>} \cup {<<k>> : k \in KnowledgeItems} :
           invokeSettled(c, o, learned)

SpecOverlap == InitOverlap /\ [][NextOverlap]_vars

(* A host that awaits every call it makes on the instance before it makes  *)
(* the next: an initialize call is issued while no messageAgent call is in *)
(* flight, a messageAgent call while no initialize call is.                *)
Sequential == {1}

InitSequential ==
    /\ InitFields
    /\ calls = [c \in Sequential |-> IdleCall]
    /\ toolRun = IdleRun
    /\ InitHost

NextSequential ==
    \/ \E tn \in ToolNumberChoices, cl \in ClientChoices, cp \in CheckPointers :
           /\ \A c \in Sequential : calls[c].pc = "idle"
           /\ initialize(tn, cl, cp)
    \/ initializeLoaded
    \/ \E connected \in BOOLEAN : initializeConnected(connected)
    \/ \E c \in Sequential, createFails \in BOOLEAN :
           /\ init.pc = "idle"
           /\ messageAgent(c, createFails)
    \/ \E c \in Sequential, r \in SelResponses, createFails \in BOOLEAN :
           selectionSettled(c, r, createFails)
    \/ \E c \in Sequential, readOk \in BOOLEAN : checkpointRead(c, readOk)
    \/ \E c \in Sequential, o \in InvokeOutcomes,
          learned \in {<<>>} \cup {<<k>> : k \in KnowledgeItems} :
           invokeSettled(c, o, learned)

SpecSequential == InitSequential /\ [][NextSequential]_vars

(* Two instances of one host, constructed from params values that hold     *)
(* whatever knowledge list the host put there.                             *)
InitInstances ==
    /\ InitAgent
    /\ toolRun = IdleRun
    /\ paramsValues \in
           [ParamsIds -> {[toolKnowledge |-> k] :
                            k \in SeqsUpTo(KnowledgeItems, MaxKnowledge)}]
    /\ agents = [i \in Instances |-> NoInstance]

NextInstances ==
    \/ \E i \in Instances, p \in ParamsIds : constructor(i, p)
    \/ \E i \in Instances, names \in {{"a"}, {"a", "b"}}, cp \in CheckPointers :
           initializeInstance(i, names, cp)
    \/ \E i \in Instances, key \in ScratchKeys, item \in KnowledgeItems :
           capabilityRuns(i, key, item)

SpecInstances == InitInstances /\ [][NextInstances]_vars

----------------------------------------------------------------------------
(* Properties.                                                             *)

Range(f) == {f[x] : x \in DOMAIN f}

(* Call c is issued in this step. *)
Issued(c) ==
    /\ calls[c].pc = "idle"
    /\ calls'[c].pc # "idle" \/ (event'.call.settled /\ event'.call.call = c)

(* The selection call of call c settles in this step, and the call goes on *)
(* to the checkpoint read.                                                 *)
Selects(c) == calls[c].pc = "selecting" /\ calls'[c].pc = "reading"

(* The names of a selection response that is a JSON array. *)
IsArray(response) == response.ok /\ response.content.json /\ response.content.array

(* C1: with at most three registered capabilities orchestrate makes no     *)
(* selection call and binds every capability of the registry to the agent; *)
(* with four or more it makes the selection call, and the agent is bound   *)
(* to what the names of the response resolve to in the registry.           *)
C1_ThresholdBoundary ==
    [][\A c \in Calls :
         /\ Issued(c) =>
              IF Cardinality(DOMAIN tools) <= Threshold
              THEN /\ calls'[c].pc # "selecting"
                   /\ calls'[c].pc = "idle" =>
                         /\ ~event'.call.selected
                         /\ event'.call.agent.built =>
                               /\ Range(event'.call.agent.tools) = Range(tools)
                               /\ Len(event'.call.agent.tools) = Cardinality(DOMAIN tools)
                   /\ calls'[c].pc = "reading" =>
                         /\ ~calls'[c].selected
                         /\ Range(calls'[c].agent.tools) = Range(tools)
                         /\ Len(calls'[c].agent.tools) = Cardinality(DOMAIN tools)
              ELSE calls'[c].pc = "selecting" /\ calls'[c].selected
         /\ Selects(c) =>
              LET names == event'.answer.response.content.items
              IN /\ event'.answer.call = c
                 /\ calls'[c].agent.tools =
                        [i \in 1..Len(names) |->
                            IF names[i] \in DOMAIN tools THEN tools[names[i]]
                            ELSE UndefinedTool]
      ]_vars

(* A call issued on a registry of exactly three is at agent.invoke without *)
(* a selection call, bound to the three.                                   *)
C1_Witness ==
    \E c \in Calls :
       /\ calls[c].pc = "invoking" /\ ~calls[c].selected
       /\ Len(calls[c].agent.tools) = Threshold
       /\ Cardinality(DOMAIN tools) = Threshold

(* C2: on the selection path every name of the response array is bound     *)
(* under its own name: a registry key as that key's executable, any other  *)
(* name (an INVALID_TOOL: name included) passed through as it is.          *)
C2_PassThrough ==
    [][\A c \in Calls :
         Selects(c) =>
            LET names == event'.answer.response.content.items
            IN \A i \in 1..Len(names) :
                  /\ calls'[c].agent.tools[i].name = names[i]
                  /\ names[i] \in DOMAIN tools =>
                        calls'[c].agent.tools[i] = tools[names[i]]
      ]_vars

(* C3: when the selection response is the empty array, orchestrate gives   *)
(* an agent unless createAgent itself throws, and that agent has no        *)
(* capability bound, whatever the registry holds.                          *)
C3_EmptySelection ==
    (IsArray(event.answer.response) /\ event.answer.response.content.items = <<>>) =>
       LET agent == IF event.call.settled THEN event.call.agent
                    ELSE calls[event.answer.call].agent
       IN /\ agent.created # "threw" => agent.built
          /\ agent.tools = <<>>
          /\ ~event.call.settled => calls[event.answer.call].pc = "reading"

C3_Witness ==
    \E c \in Calls :
       /\ event.answer.call = c
       /\ IsArray(event.answer.response)
       /\ event.answer.response.content.items = <<>>
       /\ calls[c].pc = "reading" /\ calls[c].agent.built
       /\ calls[c].agent.tools = <<>>
       /\ Cardinality(DOMAIN tools) > Threshold

StartsWith(text, prefix) ==
    /\ Len(text) >= Len(prefix)
    /\ SubSeq(text, 1, Len(prefix)) = prefix

(* C4: a capability built by createTool whose implementation throws or     *)
(* rejects returns a text beginning with "Error:" and does not propagate   *)
(* the failure.                                                            *)
C4_FailureIsolation ==
    (toolRun.pc = "done" /\ toolRun.impl.how \in {"threw", "rejected"}) =>
       /\ toolRun.result.how = "returned"
       /\ StartsWith(toolRun.result.value, <<"E", "r", "r", "o", "r", ":">>)

(* C5: a call that gets to agent.invoke submits the system instruction     *)
(* followed by the new user message when the checkpoint get returned no    *)
(* state for the thread, and the new user message alone when it returned   *)
(* state.                                                                  *)
C5_CheckpointBranching ==
    [][\A c \in Calls :
         (calls[c].pc = "reading" /\ calls'[c].pc = "invoking") =>
            /\ calls'[c].read = "null" <=> ~store[calls[c].agent.checkpointSaver]
            /\ calls'[c].read = "state" <=> store[calls[c].agent.checkpointSaver]
            /\ calls'[c].read = "null" =>
                  /\ systemPrompt.role = "system"
                  /\ calls'[c].submitted = <<systemPrompt, UserMessage(MsgOf(c))>>
            /\ calls'[c].read = "state" =>
                  calls'[c].submitted = <<UserMessage(MsgOf(c))>>
      ]_vars

(* A turn of the thread has been stored, and a later call has read the     *)
(* stored state and submits its user message alone.                        *)
C5_Witness ==
    \E c \in Calls :
       /\ calls[c].pc = "invoking" /\ calls[c].read = "state"
       /\ store[calls[c].agent.checkpointSaver]
       /\ calls[c].submitted = <<UserMessage(MsgOf(c))>>

(* C6: an initialize call with the "mongo" backend whose connection cannot *)
(* be established rejects.                                                 *)
C6_MongoFailureRejects ==
    (event.init.checkPointer = "mongo" /\ event.init.failure = "mongo") =>
       event.init.outcome = "rejected"

(* C7: an initialize call in which a factory fails during registry loading *)
(* rejects.                                                                *)
C7_LoadFailureRejects ==
    event.init.failure = "load" => event.init.outcome = "rejected"

(* C8: an initialize call with the "mongo" backend whose connection fails  *)
(* leaves the checkpoint store what it was before the call.                *)
C8_NoEphemeralFallback ==
    event.init.failure = "mongo" =>
       /\ event.init.after = event.init.before
       /\ checkPointSaver = event.init.before

(* An instance on a MemorySaver, on which a later "mongo" initialize has   *)
(* just failed to connect.                                                 *)
C8_Witness ==
    /\ event.init.failure = "mongo"
    /\ event.init.before.kind = "memory"
    /\ checkPointSaver.kind = "memory"

(* C9: a call whose selection response is malformed returns an error       *)
(* value; a call issued after it whose selection response is a well-formed *)
(* array, and whose agent is built, goes on to the checkpoint read, and    *)
(* returns the content the model answered with once the agent resolves     *)
(* with one.                                                               *)
C9_MalformedSelectionRecoverable ==
    LET done == event.call
    IN /\ (done.settled /\ Malformed(done.selection)) =>
             /\ done.result = Returned(Err("Agent failed"))
             /\ done.read = "none"
       /\ (/\ done.settled /\ done.afterMalformed /\ WellFormed(done.selection)
           /\ done.agent.created = "ok") =>
             /\ done.read # "none"
             /\ (/\ done.response.defined /\ done.response.messages # <<>>
                 /\ done.response.messages[Len(done.response.messages)] # "") =>
                   done.result =
                       Returned(Str(done.response.messages[Len(done.response.messages)]))

C9_Witness ==
    /\ event.call.settled /\ event.call.afterMalformed
    /\ WellFormed(event.call.selection)
    /\ checkPointSaver # NoSaver
    /\ event.call.result = Returned(Str("reply"))

(* C10: a messageAgent call settles by returning a value, whatever the     *)
(* instance's state and whichever collaborator failed.                     *)
C10_NeverThrows ==
    event.call.settled => event.call.result.how = "returned"

(* A call on an instance whose only initialize calls have failed: the      *)
(* agent is built without a store, the checkpoint read fails, and the call *)
(* returns "Error".                                                        *)
C10_Witness ==
    /\ nInits > 0 /\ init.pc = "idle" /\ checkPointSaver = NoSaver
    /\ event.call.settled /\ event.call.agent.built
    /\ event.call.read = "failed"
    /\ event.call.result = Returned(Str("Error"))

(* An initialize call on the instance has settled. *)
InitializeCompleted == nInits > 1 \/ (nInits = 1 /\ init.pc = "idle")

(* C11: a messageAgent call issued before any initialize call has settled  *)
(* is not accepted: it makes no selection call, builds no agent, and       *)
(* attempts no checkpoint read and no invocation.                          *)
C11_NoCallBeforeInitialize ==
    [][\A c \in Calls :
         (Issued(c) /\ ~InitializeCompleted) =>
            /\ calls'[c].pc = "idle"
            /\ event'.call.settled
            /\ ~event'.call.selected
            /\ ~event'.call.agent.built /\ event'.call.agent.created = "none"
            /\ event'.call.read = "none"
            /\ ~event'.call.response.defined
      ]_vars


(* The content the agent answered with, if the call returned one. *)
ReturnedModelResponse(done) ==
    /\ done.response.defined /\ done.response.messages # <<>>
    /\ done.result =
           Returned(Str(done.response.messages[Len(done.response.messages)]))
    /\ done.result # Returned(Str(""))

(* C12: once an initialize call on the instance has failed, no call issued *)
(* afterwards returns a model response, whatever initialize calls          *)
(* succeeded before or succeed after the failure.                          *)
C12_FailedInitializeUnusable ==
    (event.call.settled /\ event.call.afterFailure) =>
       ~ReturnedModelResponse(event.call)

(* A step of a messageAgent call. *)
CallStep == calls' # calls \/ event'.call.settled

(* An initialize call has succeeded on the instance. *)
Ready == checkPointSaver # NoSaver /\ systemPrompt # NoMessage

(* C13: a step of a messageAgent call on a Ready instance, whether the     *)
(* call goes on, returns a response or fails, leaves the capability        *)
(* mappings and their summary, the checkpoint store handle and its client, *)
(* and the rendered system instruction as they were, and the instance      *)
(* Ready.  (The thread identity is assigned by the constructor alone.)     *)
C13_CallLeavesInstanceReady ==
    [][(Ready /\ CallStep) =>
          /\ tools' = tools
          /\ registry' = registry
          /\ toolMetadata' = toolMetadata
          /\ checkPointSaver' = checkPointSaver
          /\ mongoClient' = mongoClient
          /\ systemPrompt' = systemPrompt
          /\ Ready'
      ]_vars

(* A call on a Ready instance with four capabilities has just failed on a  *)
(* malformed selection response, and the four are still registered.        *)
C13_Witness ==
    /\ Ready
    /\ event.call.settled /\ Malformed(event.call.selection)
    /\ event.call.result = Returned(Err("Agent failed"))
    /\ Cardinality(DOMAIN tools) = Threshold + 1

(* C14: once an initialize call has set the checkpoint store of the        *)
(* instance, no step of a later messageAgent or initialize call replaces   *)
(* it: neither with another store nor with a store of the other lifecycle. *)
C14_BackendChosenOnce ==
    [][checkPointSaver # NoSaver => checkPointSaver' = checkPointSaver]_vars

(* Call c settles in this step. *)
Settles(c) == event'.call.settled /\ event'.call.call = c

(* C15, as the claim states it: no model invocation of a call, the         *)
(* selection call of orchestrate included, is under way before the         *)
(* checkpoint get of the call has returned.                                *)
C15_ReadBeforeAnyModelCall ==
    \A c \in Calls :
       calls[c].pc \in {"selecting", "invoking"} =>
          calls[c].read \in {"null", "state"}

(* C15, amended: within a call the agent invocation starts only when the   *)
(* checkpoint get of the call has returned, a call whose get fails settles *)
(* without an agent invocation, and a response is extracted only from an   *)
(* agent invocation that has settled; the selection call of orchestrate    *)
(* comes before the checkpoint get.                                        *)
C15_ReadBeforeInvocation ==
    [][\A c \in Calls :
         /\ (calls'[c].pc = "invoking" /\ calls[c].pc # "invoking") =>
               /\ calls[c].pc = "reading"
               /\ calls'[c].read \in {"null", "state"}
         /\ calls'[c].pc \in {"selecting", "reading"} =>
               /\ calls'[c].read = "none"
               /\ calls'[c].submitted = <<>>
         /\ (calls'[c].pc = "reading" /\ calls[c].pc # "reading") =>
               calls[c].pc \in {"idle", "selecting"}
         /\ (Settles(c) /\ event'.call.read \in {"none", "failed"}) =>
               /\ calls[c].pc # "invoking"
               /\ ~event'.call.response.defined
         /\ (Settles(c) /\ event'.call.response.defined) =>
               /\ calls[c].pc = "invoking"
               /\ event'.call.read \in {"null", "state"}
      ]_vars

(* On a Ready instance the checkpoint get of a call has just failed, after *)
(* a selection call: the call has settled with "Error" and no response.    *)
C15_Witness ==
    /\ Ready
    /\ event.call.settled /\ event.call.selected /\ event.call.agent.built
    /\ event.call.read = "failed"
    /\ ~event.call.response.defined
    /\ event.call.result = Returned(Str("Error"))

(* The registry load of the initialize call in flight succeeds in this     *)
(* step.                                                                   *)
LoadSucceeds ==
    /\ init.pc = "loading" /\ init'.pc # "loading"
    /\ event'.init.failure # "load"

(* The names of the executables, and the keys of the descriptor mapping,   *)
(* that the factory at position i of the list fs produces.                 *)
ProducedNames(fs, i) == {t.name : t \in Range(Factory(fs[i]).tools)}
ProducedKeys(fs, i) == DOMAIN Factory(fs[i]).schema

(* The last position of fs whose factory produces the name n. *)
LastProducer(fs, n) ==
    CHOOSE i \in DOMAIN fs :
       /\ n \in ProducedNames(fs, i)
       /\ \A j \in DOMAIN fs : j > i => n \notin ProducedNames(fs, j)

C17_MappingsShareKeys ==
    (event.init.settled /\ event.init.failure # "load") =>
       DOMAIN tools = DOMAIN registry

(* An operation on instance i is this step. *)
OperatesOn(i) ==
    \/ \E p \in ParamsIds : constructor(i, p)
    \/ \E names \in {{"a"}, {"a", "b"}}, cp \in CheckPointers :
          initializeInstance(i, names, cp)
    \/ \E key \in ScratchKeys, item \in KnowledgeItems : capabilityRuns(i, key, item)

(* The mutable state of instance i that the claim is about. *)
StateOf(i) ==
    [tools |-> agents[i].tools,
     checkPointSaver |-> agents[i].checkPointSaver,
     runtimeParams |-> agents[i].runtimeParams,
     toolKnowledge |-> KnowledgeOf(i)]

(* C18: an operation on one instance leaves the capability mapping, the    *)
(* checkpoint store, the scratch state and the accumulated-knowledge list  *)
(* of every other constructed instance as they were, also when the two     *)
(* were constructed from the same params value.                            *)
C18_NoSharedState ==
    [][\A i \in Instances, j \in Instances :
         (i # j /\ agents[j].constructed /\ OperatesOn(i)) =>
            StateOf(j)' = StateOf(j)
      ]_vars

(* C19: calls that overlap on the thread are not ordered: while the        *)
(* invocation of one call, which read no state, has stored nothing yet,    *)
(* the checkpoint get of another call returns no state either, and that    *)
(* call submits the system instruction as well.                            *)
C19_OverlappingCallsRace ==
    [][\A c \in Overlapping, d \in Overlapping :
         (/\ c # d
          /\ calls[d].pc = "invoking" /\ calls[d].read = "null"
          /\ ~store[calls[d].agent.checkpointSaver]
          /\ calls[c].agent.checkpointSaver = calls[d].agent.checkpointSaver
          /\ calls[c].pc = "reading" /\ calls'[c].pc = "invoking") =>
            /\ calls'[c].read = "null"
            /\ calls'[c].submitted = <<systemPrompt, UserMessage(MsgOf(c))>>
            /\ calls'[d] = calls[d]
      ]_vars

(* Two calls on the thread are both at agent.invoke, both having read no   *)
(* state before either invocation stored the turn, and both have           *)
(* submitted the system instruction.                                       *)
C19_Witness ==
    \E c \in Overlapping, d \in Overlapping :
       /\ c # d
       /\ calls[c].pc = "invoking" /\ calls[d].pc = "invoking"
       /\ calls[c].read = "null" /\ calls[d].read = "null"
       /\ calls[c].agent.checkpointSaver = calls[d].agent.checkpointSaver
       /\ ~store[calls[c].agent.checkpointSaver]
       /\ calls[c].submitted[1] = systemPrompt /\ calls[d].submitted[1] = systemPrompt
       /\ systemPrompt.role = "system"

(* A collaborator of the settled call failed: the selection call, the      *)
(* construction of the agent, the checkpoint get or the agent invocation.  *)
CollaboratorFailed(done) ==
    \/ done.selected /\ ~done.selection.ok
    \/ done.agent.created = "threw"
    \/ done.read = "failed"
    \/ done.read \in {"null", "state"} /\ ~done.response.defined

(* An error value: an Error object, or the text "Error". *)
ErrorValue(v) == v.type = "Error" \/ v = Str("Error")

(* C20: when every collaborator call eventually returns or fails, a        *)
(* messageAgent call in flight eventually returns; and a call one of whose *)
(* collaborators failed returns an error value, not a response.            *)
C20_CallsReturn ==
    /\ \A c \in Calls :
          (calls[c].pc # "idle") ~>
             (/\ event.call.settled /\ event.call.call = c
              /\ event.call.result.how = "returned")
    /\ [](event.call.settled /\ CollaboratorFailed(event.call) =>
             /\ event.call.result.how = "returned"
             /\ ErrorValue(event.call.result.value)
             /\ ~ReturnedModelResponse(event.call))

(* The agent invocation of a call has just rejected after a selection call *)
(* and a checkpoint get that returned: the call has returned "Error".      *)
C20_Witness ==
    /\ event.call.settled /\ event.call.selected
    /\ event.call.read \in {"null", "state"}
    /\ ~event.call.response.defined
    /\ event.call.result = Returned(Str("Error"))

(* C21: a call whose orchestrate returned false settles straight from      *)
(* orchestrate: it issues no checkpoint get and no agent invocation, the   *)
(* stores are left as they were, and it returns the Error object "Agent    *)
(* failed"; a call whose agent invocation rejected returns the text        *)
(* "Error", which is another value.                                        *)
C21_OrchestrateFailureShortCircuits ==
    [][\A c \in Calls :
         /\ (Settles(c) /\ ~event'.call.agent.built) =>
               /\ calls[c].pc \in {"idle", "selecting"}
               /\ event'.call.read = "none"
               /\ ~event'.call.response.defined
               /\ store' = store
               /\ event'.call.result = Returned(Err("Agent failed"))
               /\ event'.call.result.value # Str("Error")
         /\ (Settles(c) /\ calls[c].pc = "invoking"
                /\ ~event'.call.response.defined) =>
               event'.call.result = Returned(Str("Error"))
      ]_vars

(* On a Ready instance the selection call of a call has just rejected:     *)
(* orchestrate returned false and the call has returned "Agent failed",    *)
(* with no checkpoint get made.                                            *)
C21_Witness ==
    /\ Ready
    /\ event.call.settled /\ event.call.selected /\ ~event.call.selection.ok
    /\ ~event.call.agent.built
    /\ event.call.read = "none"
    /\ event.call.result = Returned(Err("Agent failed"))

(* The checkpoint get of call c returns in this step, and the agent        *)
(* invocation is issued.                                                   *)
Reads(c) == calls[c].pc = "reading" /\ calls'[c].pc = "invoking"

(* C22: with calls made one after the other, a call that gets to the agent *)
(* invocation submits the system instruction exactly when the store of the *)
(* instance holds no state for the thread at its checkpoint get, and only  *)
(* the user message otherwise;                                             *)
(* a store that holds state keeps it, and an invocation that resolves has  *)
(* stored state, so no later call on that store submits the instruction    *)
(* again; a call made right after an invocation rejected before storing    *)
(* state submits the instruction again.                                    *)
C22_InstructionWhileNoState ==
    [][\A c \in Sequential :
         /\ Reads(c) =>
               LET stored == store[calls[c].agent.checkpointSaver]
                   withInstruction == <<systemPrompt, UserMessage(MsgOf(c))>>
                   withoutIt == <<UserMessage(MsgOf(c))>>
               IN /\ systemPrompt.role = "system"
                  /\ ~stored <=> calls'[c].submitted = withInstruction
                  /\ stored <=> calls'[c].submitted = withoutIt
                  /\ calls[c].afterUnstored =>
                        calls'[c].submitted = withInstruction
         /\ \A s \in Savers : store[s] => store'[s]
         /\ (Settles(c) /\ event'.call.response.defined) =>
               store'[event'.call.agent.checkpointSaver]
      ]_vars

(* A call made right after a call whose invocation rejected before storing *)
(* state is at agent.invoke and has submitted the system instruction, as   *)
(* the call before it had.                                                 *)
C22_Witness ==
    \E c \in Sequential :
       /\ Ready
       /\ calls[c].pc = "invoking" /\ calls[c].afterUnstored
       /\ calls[c].read = "null"
       /\ calls[c].submitted = <<systemPrompt, UserMessage(MsgOf(c))>>

(* The lines that render the non-empty items of the knowledge list k. *)
KnowledgeLines(k) == {<<"- ", k[i]>> : i \in {j \in DOMAIN k : k[j] # ""}}

(* C23: the system instruction changes only in the step of an initialize   *)
(* call that follows its load, and is then rendered from the knowledge     *)
(* list as it is in that step; a step that appends knowledge leaves the    *)
(* instruction as it was; a call that makes the selection call submits a   *)
(* selection prompt that holds every item appended so far; and a call that *)
(* reads no state submits the instruction as initialize rendered it.       *)
C23_InstructionRenderedAtInitialize ==
    [][/\ systemPrompt' # systemPrompt =>
             /\ init.pc = "loading" /\ init'.pc # "loading"
             /\ systemPrompt' = SystemMessage(toolMetadata', toolKnowledge)
             /\ toolKnowledge' = toolKnowledge
       /\ toolKnowledge' # toolKnowledge =>
             /\ systemPrompt' = systemPrompt
             /\ \E c \in Calls : Settles(c) /\ calls[c].pc = "invoking"
       /\ \A c \in Calls :
             /\ (Issued(c) /\ calls'[c].pc = "selecting") =>
                   /\ event'.prompt.role = "system"
                   /\ toolKnowledge # <<>> =>
                         Range(event'.prompt.knowledge) = KnowledgeLines(toolKnowledge)
                   /\ toolKnowledge = <<>> =>
                         event'.prompt.knowledge = <<<<"false">>>>
             /\ (Reads(c) /\ calls'[c].read = "null") =>
                   /\ calls'[c].submitted[1] = systemPrompt
                   /\ systemPrompt' = systemPrompt
      ]_vars

(* Knowledge was appended after initialize had rendered the system         *)
(* instruction from the empty list: a call that read no state is at        *)
(* agent.invoke, and the instruction it submitted holds none of it.        *)
C23_Witness ==
    \E c \in Calls :
       /\ Ready
       /\ toolKnowledge # <<>>
       /\ calls[c].pc = "invoking" /\ calls[c].read = "null"
       /\ calls[c].submitted[1] = systemPrompt
       /\ systemPrompt.knowledge = <<<<"false">>>>
       /\ Range(systemPrompt.knowledge) \cap KnowledgeLines(toolKnowledge) = {}

====
